---- MODULE Spec2Model ----
(***************************************************************************)
(* State-machine model of the midihub OLED monitor (src/midioled.py).      *)
(*                                                                         *)
(* Time is counted in units of 10 ms (the poll interval of monitor_midi),  *)
(* so NOTE_DEBOUNCE_TIME = 0.03 s is 3, FLASH_TIME = 0.3 s is 30 and       *)
(* DEVICE_DISPLAY_TIME = 5 s is 500.  time.time() is the variable clock.   *)
(* The Python dict `state` is the record variable state, the locals of     *)
(* monitor_midi and of update_display are the record variables mon and     *)
(* rnd.  The variables log and hist are history variables: they record     *)
(* what the drained messages did and are never read by the modelled code.  *)
(***************************************************************************)
EXTENDS Integers, Sequences, FiniteSets, TLC

VARIABLES
    state,      \* the shared dict `state` (midioled.py 62-87)
    mon,        \* locals of monitor_midi (midioled.py 343-347, 368-369) and its pc
    clock,      \* time.time(), in units of 10 ms
    nticks,     \* number of clock advances so far (bounds the model)
    sysdevs,    \* what get_input_names() returns now
    trigger,    \* mtime of TRIGGER_FILE, None while the file does not exist
    budget,     \* environment events still to come (bounds the model)
    log,        \* history: what each message of the last iteration did
    hist,       \* history: summary of the messages drained so far
    rnd,        \* locals of update_display and its pc
    frame,      \* the last frame update_display has drawn
    boot,       \* the start of midioled.py: its pc and the fonts it loaded
    hub         \* the hot-plug script midihub.py: its pc, files and commands

vars ==
    <<state, mon, clock, nticks, sysdevs, trigger, budget, log, hist, rnd, frame,
      boot, hub>>

-----------------------------------------------------------------------------
(* Program constants, in units of 10 ms where they are times. *)

NOTE_DEBOUNCE_TIME == 3
FLASH_TIME == 30
DEVICE_DISPLAY_TIME == 500
MAX_DEVICE_LINES == 5
DISPLAY_HEIGHT == 64
POLL_SLEEP == 1
RENDER_SLEEP == 4

\* get_text_size("A", font_device)[1] + 2 with the 8 pixel font miniwi-8.
LINE_H == 10

\* Python's None for channel, cc, cc_val, prev_ch, shown_at and absent fields.
None == 0 - 1

\* time.time() when the process starts; any value above NOTE_DEBOUNCE_TIME
\* behaves like the real epoch time: the first event of a note is accepted.
StartTime == NOTE_DEBOUNCE_TIME + 1

(* Bounds of the model. *)
MaxTicks == 6
MaxQueue == 2
MaxEvents == 4
MaxHeld == 6
RaceEvents == 3
FlashEvents == 2
SizeEvents == 3
BubbleEvents == 2
DeviceEvents == 2
OverlayEvents == 1
ClassifyEvents == 3

-----------------------------------------------------------------------------
(* Small helpers. *)

Min(S) == CHOOSE x \in S : \A y \in S : x <= y

RECURSIVE sorted(_)
\* Python sorted() of a set of integers, as a sequence.
sorted(S) ==
    IF S = {} THEN <<>> ELSE <<Min(S)>> \o sorted(S \ {Min(S)})

SeqToSet(q) == {q[i] : i \in 1..Len(q)}

-----------------------------------------------------------------------------
(* MIDI messages as mido delivers them; fields a type lacks are None. *)

NoteOn(n, v, ch) ==
    [type |-> "note_on", note |-> n, velocity |-> v, channel |-> ch,
     control |-> None, value |-> None]

NoteOff(n, ch) ==
    [type |-> "note_off", note |-> n, velocity |-> 0, channel |-> ch,
     control |-> None, value |-> None]

ControlChange(c, v, ch) ==
    [type |-> "control_change", note |-> None, velocity |-> None, channel |-> ch,
     control |-> c, value |-> v]

ClockMsg ==
    [type |-> "clock", note |-> None, velocity |-> None, channel |-> None,
     control |-> None, value |-> None]

IsNoteOn(m) == m.type = "note_on" /\ m.velocity > 0
IsNoteOff(m) == m.type = "note_off" \/ (m.type = "note_on" /\ m.velocity = 0)
IsCC(m) == m.type = "control_change"

\* The notes the model's keyboards can send.
NoteUniverse == {60, 61, 62, 63, 64, 65, 67}

-----------------------------------------------------------------------------
(* Device names.  A raw name is [base, br]: br = 0 is the bare name, br > 0 *)
(* the name followed by a bracketed part " [br]".                           *)

Dev(b, k) == [base |-> b, br |-> k]

Through == Dev("Midi Through", 0)
KeyA == Dev("KeyA", 0)
KeyA1 == Dev("KeyA", 1)
KeyA2 == Dev("KeyA", 2)
KeyB == Dev("KeyB", 0)

\* The ports of a setup with several multi-port interfaces.
PortNames ==
    <<"Port 01", "Port 02", "Port 03", "Port 04", "Port 05", "Port 06",
      "Port 07", "Port 08", "Port 09", "Port 10", "Port 11", "Port 12",
      "Port 13", "Port 14", "Port 15", "Port 16", "Port 17", "Port 18",
      "Port 19", "Port 20", "Port 21", "Port 22">>

\* get_input_names() with the first n ports plugged in.
Ports(n) == <<Through>> \o [i \in 1..n |-> Dev(PortNames[i], 0)]

DeviceUniverse ==
    {Through, KeyA, KeyA1, KeyA2, KeyB} \cup {Dev(PortNames[i], 0) : i \in 1..Len(PortNames)}

\* "Through" in name
HasThrough(name) == name.base = "Midi Through"

RECURSIVE filter_device_names(_)
filter_device_names(devices) ==
    IF devices = <<>> THEN <<>>
    ELSE LET name == Head(devices)
             rest == filter_device_names(Tail(devices))
         IN  IF HasThrough(name) THEN rest
             ELSE <<name.base>> \o rest

RECURSIVE open_inputs(_)
\* [open_input(name) for name in current_devices if "Through" not in name]
open_inputs(devices) ==
    IF devices = <<>> THEN <<>>
    ELSE IF HasThrough(Head(devices)) THEN open_inputs(Tail(devices))
         ELSE <<Head(devices)>> \o open_inputs(Tail(devices))

-----------------------------------------------------------------------------
(* Chord labels.  A label is a record; kind "none" is the empty string,     *)
(* kind "chord" a recognized chord name, kind "notes" the note names of an  *)
(* unrecognized set joined by spaces.                                       *)

EmptyLabel ==
    [kind |-> "none", root |-> None, quality |-> "", bass |-> None, names |-> <<>>]

\* m21note.Note(n).nameWithOctave: pitch class and octave of the MIDI number.
midi_note_to_name(n) == <<n % 12, (n \div 12) - 1>>

NoteNames(q) == [i \in 1..Len(q) |-> midi_note_to_name(q[i])]

\* The entries of allowed_types the model's notes can form, by the pitch
\* classes above the root.
ChordTypes ==
    { [pcs |-> {0, 4, 7}, quality |-> "Major"],
      [pcs |-> {0, 3, 7}, quality |-> "Minor"],
      [pcs |-> {0, 3, 6}, quality |-> "Dim"],
      [pcs |-> {0, 4, 8}, quality |-> "Aug"],
      [pcs |-> {0, 4, 7, 10}, quality |-> "7th"],
      [pcs |-> {0, 4, 7, 11}, quality |-> "Maj7"],
      [pcs |-> {0, 3, 7, 10}, quality |-> "Min7"] }

\* An except clause that reports the chord it was asked about as C major.
detect_chord_except_recognizes(notes) ==
    [chord_str |-> [kind |-> "chord", root |-> 0, quality |-> "Major",
                    bass |-> None, names |-> <<>>],
     unknown |-> FALSE]

\* Lines 140-143: the except clause of detect_chord.
detect_chord_except(notes) ==
    [chord_str |-> [kind |-> "notes", root |-> None, quality |-> "",
                    bass |-> None, names |-> NoteNames(sorted(notes))],
     unknown |-> TRUE]

\* Lines 101-139: the try block of detect_chord when nothing raises.
detect_chord(notes) ==
    LET above(r) == {(n - r) % 12 : n \in notes}
        roots == {r \in notes : \E t \in ChordTypes : t.pcs = above(r)}
    IN  IF roots # {}
        THEN LET r == Min(roots)
                 t == CHOOSE t \in ChordTypes : t.pcs = above(r)
                 bass == Min(notes)
                 is_inversion == (bass % 12) # (r % 12)
             IN  [chord_str |-> [kind |-> "chord", root |-> r % 12,
                                 quality |-> t.quality,
                                 bass |-> IF is_inversion THEN bass ELSE None,
                                 names |-> <<>>],
                  unknown |-> FALSE]
        ELSE [chord_str |-> [kind |-> "notes", root |-> None, quality |-> "",
                             bass |-> None, names |-> NoteNames(sorted(notes))],
              unknown |-> TRUE]

-----------------------------------------------------------------------------
(* The initial contents of `state` and of monitor_midi's locals. *)

InitState ==
    [channel |-> None,
     cc |-> None,
     cc_val |-> None,
     active_notes |-> {},
     note_timestamps |-> [n \in NoteUniverse |-> 0],
     show_devices |-> FALSE,
     devices |-> <<>>,
     last_device_update |-> 0,
     chord_name |-> EmptyLabel,
     unknown_chord |-> FALSE,
     last_chord_time |-> 0,
     last_chord_persist |-> EmptyLabel,
     toprow_values_flash_until |-> [ch |-> 0, cc |-> 0, val |-> 0],
     last_chord_flash_until |-> 0,
     device_scroll_time |-> 0,
     bubble_latched_notes |-> <<>>]

\* now, note_changed and q (the messages the for loops still have to visit)
\* are set at the start of every iteration before they are read; between
\* iterations the model keeps them at None, FALSE and <<>>.  closed tells
\* that the port objects of inputs have been closed (line 358) and not been
\* replaced by new ones.
InitMon ==
    [inputs |-> <<>>,
     closed |-> FALSE,
     last_device_list |-> <<>>,
     shown_at |-> None,
     prev_ch |-> None,
     prev_active_notes |-> {},
     now |-> None,
     note_changed |-> FALSE,
     q |-> <<>>,
     pc |-> "run"]

-----------------------------------------------------------------------------
(* monitor_midi, one loop iteration. *)

\* check_for_device_update: [changed, s]
check_for_device_update(s, mtime) ==
    IF mtime # None /\ mtime # s.last_device_update
    THEN [changed |-> TRUE, s |-> [s EXCEPT !.last_device_update = mtime]]
    ELSE [changed |-> FALSE, s |-> s]

\* A watcher that reopens the ports whenever it enumerates the devices.
watch_devices_always_reopens(s, m, mtime, names, now) ==
    LET c == check_for_device_update(s, mtime)
        differs == c.changed \/ m.inputs = <<>>
        s1 == IF differs
              THEN [c.s EXCEPT !.devices = names,
                               !.show_devices = TRUE,
                               !.device_scroll_time = now]
              ELSE c.s
        m1 == IF differs
              THEN [m EXCEPT !.last_device_list = filter_device_names(names),
                             !.inputs = open_inputs(names),
                             !.closed = FALSE,
                             !.shown_at = now]
              ELSE m
        s2 == IF s1.show_devices /\ m1.shown_at # None
                 /\ now - m1.shown_at > DEVICE_DISPLAY_TIME
              THEN [s1 EXCEPT !.show_devices = FALSE]
              ELSE s1
    IN  [s |-> s2, m |-> m1, reopened |-> differs]

\* Lines 350-366: the device watcher.  [s, m, reopened]
watch_devices(s, m, mtime, names, now) ==
    LET c == check_for_device_update(s, mtime)
        enumerate == c.changed \/ m.inputs = <<>>
        filtered_devices == filter_device_names(names)
        differs == enumerate /\ filtered_devices # m.last_device_list
        s1 == IF differs
              THEN [c.s EXCEPT !.devices = names,
                               !.show_devices = TRUE,
                               !.device_scroll_time = now]
              ELSE c.s
        m1 == IF differs
              THEN [m EXCEPT !.last_device_list = filtered_devices,
                             !.inputs = open_inputs(names),
                             !.closed = FALSE,
                             !.shown_at = now]
              ELSE m
        s2 == IF s1.show_devices /\ m1.shown_at # None
                 /\ now - m1.shown_at > DEVICE_DISPLAY_TIME
              THEN [s1 EXCEPT !.show_devices = FALSE]
              ELSE s1
    IN  [s |-> s2, m |-> m1, reopened |-> differs]

\* Lines 350-359 and 434-435 when the list differs and open_input raises for
\* one of the names: the statements before the raise have run, the old
\* ports are closed, inputs keeps the closed port objects and the rest of
\* the iteration is skipped.  [s, m]
watch_devices_raises(s, m, mtime, names) ==
    LET c == check_for_device_update(s, mtime)
    IN  [s |-> [c.s EXCEPT !.devices = names, !.show_devices = TRUE],
         m |-> [m EXCEPT !.last_device_list = filter_device_names(names),
                         !.closed = TRUE]]

\* A debounce that also stamps the events it rejects.
debounce_stamps_rejected(s, note, now) ==
    [ok |-> now - s.note_timestamps[note] > NOTE_DEBOUNCE_TIME,
     s |-> [s EXCEPT !.note_timestamps[note] = now]]

\* A debounce that keeps one timestamp for all notes.
debounce_one_timestamp(s, note, now) ==
    IF now - s.note_timestamps[note] > NOTE_DEBOUNCE_TIME
    THEN [ok |-> TRUE, s |-> [s EXCEPT !.note_timestamps = [n \in DOMAIN @ |-> now]]]
    ELSE [ok |-> FALSE, s |-> s]

\* debounce_note_event: [ok, s]
debounce_note_event(s, note, now) ==
    LET last == s.note_timestamps[note]
    IN  IF now - last > NOTE_DEBOUNCE_TIME
        THEN [ok |-> TRUE, s |-> [s EXCEPT !.note_timestamps[note] = now]]
        ELSE [ok |-> FALSE, s |-> s]

\* Lines 372-377 and 378-384: a note message.  [s, note_changed, accepted]
on_note(s, note_changed, msg, now) ==
    LET d == debounce_note_event(s, msg.note, now)
    IN  IF d.ok
        THEN [s |-> [d.s EXCEPT !.channel = msg.channel + 1,
                                !.active_notes = IF IsNoteOn(msg)
                                                 THEN @ \cup {msg.note}
                                                 ELSE @ \ {msg.note}],
              note_changed |-> TRUE, accepted |-> TRUE]
        ELSE [s |-> d.s, note_changed |-> note_changed, accepted |-> FALSE]

\* A control_change handler that debounces per controller the way notes are
\* debounced (here: drops an event that repeats the stored controller).
on_control_change_debounced(s, msg, now) ==
    IF s.cc = msg.control THEN s
    ELSE [s EXCEPT !.channel = msg.channel + 1,
                   !.toprow_values_flash_until.cc = now + FLASH_TIME,
                   !.toprow_values_flash_until.val = now + FLASH_TIME,
                   !.cc = msg.control, !.cc_val = msg.value]

\* A control_change handler that arms both windows on every event.
on_control_change_always_arms(s, msg, now) ==
    [s EXCEPT !.channel = msg.channel + 1,
              !.toprow_values_flash_until.cc = now + FLASH_TIME,
              !.toprow_values_flash_until.val = now + FLASH_TIME,
              !.cc = msg.control, !.cc_val = msg.value]

\* Lines 385-393: a control_change message.
on_control_change(s, msg, now) ==
    LET s1 == [s EXCEPT !.channel = msg.channel + 1]
        s2 == IF s1.cc # msg.control
              THEN [s1 EXCEPT !.toprow_values_flash_until.cc = now + FLASH_TIME]
              ELSE s1
        s3 == IF s2.cc_val # msg.value
              THEN [s2 EXCEPT !.toprow_values_flash_until.val = now + FLASH_TIME]
              ELSE s2
    IN  [s3 EXCEPT !.cc = msg.control, !.cc_val = msg.value]

\* Lines 372-393: what one drained message does.  [s, note_changed, accepted]
on_message(s, note_changed, msg, now) ==
    IF IsNoteOn(msg) \/ IsNoteOff(msg)
    THEN on_note(s, note_changed, msg, now)
    ELSE IF IsCC(msg)
    THEN [s |-> on_control_change(s, msg, now),
          note_changed |-> note_changed, accepted |-> TRUE]
    ELSE [s |-> s, note_changed |-> note_changed, accepted |-> FALSE]

RECURSIVE AllPending(_, _)
\* for port in inputs: for msg in port.iter_pending()
AllPending(inputs, pend) ==
    IF inputs = <<>> THEN <<>>
    ELSE pend[Head(inputs)] \o AllPending(Tail(inputs), pend)

\* Lines 394-396.  [s, prev_ch]
flash_channel(s, prev_ch, now) ==
    [s |-> IF prev_ch # s.channel
           THEN [s EXCEPT !.toprow_values_flash_until.ch = now + FLASH_TIME]
           ELSE s,
     prev_ch |-> s.channel]

\* A caller that hands every set of at least 3 notes to detect_chord.
detect_chord_calls_unbounded(notes) ==
    IF 3 <= Cardinality(notes) THEN {notes} ELSE {}

\* Lines 401 and 418: the arguments of the call of detect_chord made for
\* `notes`, none when the call is skipped.
detect_chord_calls(notes) ==
    IF 3 <= Cardinality(notes) /\ Cardinality(notes) <= 6 THEN {notes} ELSE {}

\* Lines 401-414 and 418-431: evaluate the chord of `notes` into `state`;
\* raises tells that music21 raises inside the try block of detect_chord.
evaluate_chord_try(s, notes, now, raises) ==
    IF detect_chord_calls(notes) # {}
    THEN LET a == CHOOSE a \in detect_chord_calls(notes) : TRUE
             d == IF raises THEN detect_chord_except(a) ELSE detect_chord(a)
             s1 == [s EXCEPT !.chord_name = d.chord_str, !.unknown_chord = d.unknown]
         IN  IF ~d.unknown
             THEN [s1 EXCEPT !.last_chord_persist = d.chord_str, !.last_chord_time = now]
             ELSE s1
    ELSE [s EXCEPT !.chord_name = EmptyLabel, !.unknown_chord = FALSE]

evaluate_chord(s, notes, now) == evaluate_chord_try(s, notes, now, FALSE)

\* A latch block that empties the latched notes whenever a note event was
\* accepted and no note is held.
latch_bubbles_clears(s, prev_active_notes, note_changed) ==
    IF ~note_changed THEN s
    ELSE IF s.active_notes = {} /\ prev_active_notes # {}
    THEN [s EXCEPT !.bubble_latched_notes = sorted(prev_active_notes)]
    ELSE [s EXCEPT !.bubble_latched_notes = <<>>]

\* A latch block that keeps the latched notes while notes are held.
latch_bubbles_keeps_latch(s, prev_active_notes, note_changed) ==
    IF note_changed /\ s.active_notes = {} /\ prev_active_notes # {}
    THEN [s EXCEPT !.bubble_latched_notes = sorted(prev_active_notes)]
    ELSE s

\* Lines 398-400 and 415-417: the assignments to bubble_latched_notes.
latch_bubbles(s, prev_active_notes, note_changed) ==
    IF ~note_changed THEN s
    ELSE IF s.active_notes = {} /\ prev_active_notes # {}
    THEN [s EXCEPT !.bubble_latched_notes = sorted(prev_active_notes)]
    ELSE IF s.active_notes # {}
    THEN [s EXCEPT !.bubble_latched_notes = <<>>]
    ELSE s

\* Lines 397-399 and 415-416: the note set the branch taken evaluates, none
\* when neither branch is taken.
chord_notes(s, prev_active_notes, note_changed) ==
    IF ~note_changed THEN {}
    ELSE IF s.active_notes = {} /\ prev_active_notes # {}
    THEN {prev_active_notes}
    ELSE IF s.active_notes # {}
    THEN {s.active_notes}
    ELSE {}

\* Lines 401-414 and 418-431: the chord evaluation of the branch taken.
latch_chord_try(s, prev_active_notes, note_changed, now, raises) ==
    IF chord_notes(s, prev_active_notes, note_changed) = {} THEN s
    ELSE evaluate_chord_try(s,
                            CHOOSE n \in chord_notes(s, prev_active_notes, note_changed) : TRUE,
                            now, raises)

latch_chord(s, prev_active_notes, note_changed, now) ==
    latch_chord_try(s, prev_active_notes, note_changed, now, FALSE)

\* Line 432.
latch_prev(s, prev_active_notes, note_changed) ==
    IF note_changed THEN s.active_notes ELSE prev_active_notes

\* Lines 398-432.  [s, prev_active_notes]
latch_notes_try(s, prev_active_notes, note_changed, now, raises) ==
    [s |-> latch_chord_try(latch_bubbles(s, prev_active_notes, note_changed),
                           prev_active_notes, note_changed, now, raises),
     prev_active_notes |-> latch_prev(s, prev_active_notes, note_changed)]

latch_notes(s, prev_active_notes, note_changed, now) ==
    latch_notes_try(s, prev_active_notes, note_changed, now, FALSE)

-----------------------------------------------------------------------------
(* History variables. *)

\* What a log entry keeps of `state` before and after a message.
Snapshot(s, note_changed) ==
    [channel |-> s.channel, cc |-> s.cc, cc_val |-> s.cc_val,
     active_notes |-> s.active_notes, note_timestamps |-> s.note_timestamps,
     chord_name |-> s.chord_name, bubble_latched_notes |-> s.bubble_latched_notes,
     flash |-> s.toprow_values_flash_until, note_changed |-> note_changed]

\* The summary of the messages drained so far:
\*   on_t[n]      when the last NoteOn(n) was drained, None if never
\*   on_acc_t[n]  when the last accepted NoteOn(n) was drained, None if never
\*   acc_t[n]     when the last accepted message of note n, NoteOn or NoteOff,
\*                was drained, None if never
\*   kind[n]      "on"/"off": the last message drained for n, "none" if never
\*   chord        the held notes right after the last accepted NoteOn
\*   rel_t        when the first NoteOff after that NoteOn was accepted
\*   cc, val      controller and value of the last ControlChange drained
\*   cc_t         when it was drained
\*   latch_t      when the notes now in bubble_latched_notes were latched,
\*                None while it is empty
\*   quiet        no message was drained since then
\*   label_t      when last_chord_persist last changed, None if never
\*   arm_t        per top-row field, when its flash window was last written
\*   eval         the last chord evaluation: its note set, whether it was
\*                made on the latch path, the calls of detect_chord it made,
\*                whether a call raised, last_chord_persist before it
\*   change_t     when the watcher last found a changed device list
\*   open_failed  the names open_input raised for at that change
InitHist ==
    [on_t |-> [n \in NoteUniverse |-> None],
     on_acc_t |-> [n \in NoteUniverse |-> None],
     acc_t |-> [n \in NoteUniverse |-> None],
     kind |-> [n \in NoteUniverse |-> "none"],
     chord |-> {},
     rel_t |-> None,
     cc |-> None,
     val |-> None,
     cc_t |-> None,
     latch_t |-> None,
     quiet |-> FALSE,
     label_t |-> None,
     arm_t |-> [ch |-> None, cc |-> None, val |-> None],
     eval |-> <<>>,
     change_t |-> None,
     open_failed |-> {}]

Observe(h, msg, now, accepted, post) ==
    LET h1 == [h EXCEPT !.quiet = FALSE]
    IN  IF IsNoteOn(msg)
        THEN [h1 EXCEPT !.on_t[msg.note] = now,
                        !.on_acc_t[msg.note] = IF accepted THEN now ELSE @,
                        !.acc_t[msg.note] = IF accepted THEN now ELSE @,
                        !.kind[msg.note] = "on",
                        !.chord = IF accepted THEN post.active_notes ELSE @,
                        !.rel_t = IF accepted THEN None ELSE @]
        ELSE IF IsNoteOff(msg)
        THEN [h1 EXCEPT !.kind[msg.note] = "off",
                        !.acc_t[msg.note] = IF accepted THEN now ELSE @,
                        !.rel_t = IF accepted /\ @ = None THEN now ELSE @]
        ELSE IF IsCC(msg)
        THEN [h1 EXCEPT !.cc = msg.control, !.val = msg.value, !.cc_t = now]
        ELSE h1

ObserveLatch(h, s0, s1, now) ==
    LET h1 == IF s1.last_chord_persist # s0.last_chord_persist
              THEN [h EXCEPT !.label_t = now]
              ELSE h
    IN  IF s1.bubble_latched_notes = s0.bubble_latched_notes THEN h1
        ELSE IF s1.bubble_latched_notes # <<>>
        THEN [h1 EXCEPT !.latch_t = now, !.quiet = TRUE]
        ELSE [h1 EXCEPT !.latch_t = None, !.quiet = FALSE]

ObserveEval(h, s, prev_active_notes, note_changed, raises) ==
    LET e == chord_notes(s, prev_active_notes, note_changed)
    IN  IF e = {} THEN h
        ELSE [h EXCEPT !.eval =
                 <<[notes |-> CHOOSE n \in e : TRUE,
                    latch |-> s.active_notes = {},
                    calls |-> detect_chord_calls(CHOOSE n \in e : TRUE),
                    raised |-> raises /\ detect_chord_calls(CHOOSE n \in e : TRUE) # {},
                    persist |-> s.last_chord_persist]>>]

ObserveChange(h, changed, now, failing) ==
    IF changed THEN [h EXCEPT !.change_t = now, !.open_failed = failing] ELSE h

FlashKeys == {"ch", "cc", "val"}

ObserveArm(h, s0, s1, now) ==
    [h EXCEPT !.arm_t =
        [k \in FlashKeys |->
            IF s1.toprow_values_flash_until[k] # s0.toprow_values_flash_until[k]
            THEN now ELSE @[k]]]

Entry(msg, now, r, s, note_changed, h) ==
    [msg |-> msg, t |-> now, accepted |-> r.accepted, h |-> h,
     pre |-> Snapshot(s, note_changed), post |-> Snapshot(r.s, r.note_changed)]

RECURSIVE iter_pending(_, _, _, _, _, _)
\* Lines 370-393: drain the queue q in order.  [s, note_changed, log, h]
iter_pending(s, note_changed, q, now, lg, h) ==
    IF q = <<>> THEN [s |-> s, note_changed |-> note_changed, log |-> lg, h |-> h]
    ELSE LET r == on_message(s, note_changed, Head(q), now)
         IN  iter_pending(r.s, r.note_changed, Tail(q), now,
                          Append(lg, Entry(Head(q), now, r, s, note_changed, h)),
                          Observe(h, Head(q), now, r.accepted, r.s))

\* One whole iteration of the while loop of monitor_midi (lines 349-433),
\* with pend the messages the ports have received since the last iteration.
\* Ports opened in this iteration replace the old port objects and hold
\* nothing yet.
monitor_midi_try(pend, raises) ==
    \E w \in {watch_devices(state, mon, trigger, sysdevs, clock)} :
    \E q \in {IF w.reopened THEN <<>> ELSE AllPending(w.m.inputs, pend)} :
    \E r \in {iter_pending(w.s, FALSE, q, clock, <<>>, hist)} :
    \E f \in {flash_channel(r.s, w.m.prev_ch, clock)} :
    \E l \in {latch_notes_try(f.s, w.m.prev_active_notes, r.note_changed, clock,
                               raises)} :
        /\ state' = l.s
        /\ mon' = [w.m EXCEPT !.prev_ch = f.prev_ch,
                              !.prev_active_notes = l.prev_active_notes,
                              !.pc = "sleep"]
        /\ log' = r.log
        /\ hist' = ObserveChange(
                       ObserveEval(ObserveArm(ObserveLatch(r.h, state, l.s, clock),
                                              state, l.s, clock),
                                   f.s, w.m.prev_active_notes, r.note_changed, raises),
                       w.reopened, clock, {})

monitor_midi(pend) == monitor_midi_try(pend, FALSE)

-----------------------------------------------------------------------------
(* update_display, one frame. *)

\* Lines 287-298.  [note_vals, held_set]
read_notes(s) ==
    IF s.active_notes # {}
    THEN [note_vals |-> sorted(s.active_notes), held_set |-> s.active_notes]
    ELSE IF s.bubble_latched_notes # <<>>
    THEN [note_vals |-> s.bubble_latched_notes, held_set |-> {}]
    ELSE [note_vals |-> <<>>, held_set |-> {}]

\* A note row that fills every bubble.
draw_bubble_notes_filled(note_names, held_notes, held_set) ==
    [i \in 1..Len(note_names) |-> [name |-> note_names[i], invert |-> TRUE]]

\* draw_bubble_notes: one bubble per name, inverted when its note is held.
draw_bubble_notes(note_names, held_notes, held_set) ==
    [i \in 1..Len(note_names) |->
        [name |-> note_names[i],
         invert |-> IF i <= Len(held_notes) THEN held_notes[i] \in held_set
                    ELSE FALSE]]

\* A top row whose windows include their expiry time.
draw_toprow_inclusive(s, now) ==
    [ch |-> [value |-> s.channel, invert |-> now <= s.toprow_values_flash_until.ch],
     cc |-> [value |-> s.cc, invert |-> now <= s.toprow_values_flash_until.cc],
     val |-> [value |-> s.cc_val, invert |-> now <= s.toprow_values_flash_until.val]]

\* draw_toprow: the three values and whether each is drawn inverted.
draw_toprow(s, now) ==
    [ch |-> [value |-> s.channel, invert |-> now < s.toprow_values_flash_until.ch],
     cc |-> [value |-> s.cc, invert |-> now < s.toprow_values_flash_until.cc],
     val |-> [value |-> s.cc_val, invert |-> now < s.toprow_values_flash_until.val]]

\* Lines 312-318.  [chord, invert]
chord_row(s, note_vals, now) ==
    [chord |-> IF Len(note_vals) >= 3 /\ s.chord_name # EmptyLabel
               THEN s.chord_name
               ELSE IF s.last_chord_persist # EmptyLabel
               THEN s.last_chord_persist
               ELSE EmptyLabel,
     invert |-> now < s.last_chord_flash_until]

InitRnd ==
    [pc |-> "idle", wake |-> None, now |-> None,
     notes |-> [note_vals |-> <<>>, held_set |-> {}],
     top |-> draw_toprow(InitState, 0), held_before |-> FALSE]

\* The canvas before the first frame.  Of an overlay frame, since is the time
\* from device_scroll_time to the frame, offset the scroll offset in pixels,
\* lines the [idx, y] of the names drawn, in drawing order; seen (the indices
\* drawn so far) and peak (the largest offset so far) summarize the overlay
\* frames drawn since the same device_scroll_time.
InitFrame ==
    [mode |-> "none", t |-> None, devices |-> <<>>,
     top |-> draw_toprow(InitState, 0),
     note_vals |-> <<>>, bubbles |-> <<>>, placeholder |-> FALSE,
     chord_name |-> EmptyLabel, chord |-> EmptyLabel, chord_invert |-> FALSE,
     held_before |-> FALSE,
     since |-> None, offset |-> 0, lines |-> <<>>, seen |-> {}, peak |-> 0]

\* Lines 265-270: a list that fits is drawn without scrolling.
static_lines(n_devices) ==
    SelectSeq([i \in 1..n_devices |-> [idx |-> i - 1, y |-> (i - 1) * LINE_H]],
              LAMBDA l : l.y < DISPLAY_HEIGHT)

\* Lines 272-277: [first_line, pixel_offset] after `since` units of scrolling.
scroll_position(n_devices, since) ==
    LET total_scroll == n_devices - MAX_DEVICE_LINES
        scroll_period == DEVICE_DISPLAY_TIME
        elapsed == since % scroll_period
    IN  [first_line |-> (elapsed * total_scroll) \div scroll_period,
         pixel_offset |->
             (((elapsed * total_scroll) % scroll_period) * LINE_H) \div scroll_period]

\* Lines 278-284: the window of MAX_DEVICE_LINES + 1 lines from first_line.
scrolled_lines(n_devices, first_line, pixel_offset) ==
    SelectSeq([i \in 1..(MAX_DEVICE_LINES + 1) |->
                  [idx |-> first_line + (i - 1), y |-> (i - 1) * LINE_H - pixel_offset]],
              LAMBDA l : l.idx < n_devices /\ 0 <= l.y /\ l.y < DISPLAY_HEIGHT)

\* Lines 260-284: the device overlay, drawn after the frame prev.
device_frame(s, now, prev) ==
    LET devices == filter_device_names(s.devices)
        n_devices == Len(devices)
        since == now - s.device_scroll_time
        p == scroll_position(n_devices, since)
        lines == IF n_devices <= MAX_DEVICE_LINES THEN static_lines(n_devices)
                 ELSE scrolled_lines(n_devices, p.first_line, p.pixel_offset)
        offset == IF n_devices <= MAX_DEVICE_LINES THEN 0
                  ELSE p.first_line * LINE_H + p.pixel_offset
        same == /\ prev.mode = "devices"
                /\ prev.devices = devices
                /\ prev.t - prev.since = s.device_scroll_time
    IN  [InitFrame EXCEPT !.mode = "devices", !.t = now,
                          !.devices = devices,
                          !.since = since,
                          !.offset = offset,
                          !.lines = lines,
                          !.seen = (IF same THEN prev.seen ELSE {})
                                   \cup {lines[i].idx : i \in 1..Len(lines)},
                          !.peak = IF same /\ prev.peak > offset THEN prev.peak
                                   ELSE offset]

\* Lines 286-330: the main screen, from the notes read at lines 287-298 and
\* the chord fields read at lines 312-318.
main_frame(s, top, notes, held_before, now) ==
    LET c == chord_row(s, notes.note_vals, now)
    IN  [mode |-> "main", t |-> now, devices |-> <<>>,
         top |-> top,
         note_vals |-> notes.note_vals,
         bubbles |-> draw_bubble_notes(NoteNames(notes.note_vals),
                                       notes.note_vals, notes.held_set),
         placeholder |-> notes.note_vals = <<>>,
         chord_name |-> s.chord_name,
         chord |-> c.chord,
         chord_invert |-> c.invert,
         held_before |-> held_before,
         since |-> None, offset |-> 0, lines |-> <<>>, seen |-> {}, peak |-> 0]

-----------------------------------------------------------------------------
(* The environment and the threads. *)

\* Time advances by one of the given steps.  Every step is at least
\* POLL_SLEEP, so a monitor_midi asleep in time.sleep(0.01) is runnable
\* again; update_display is when its time.sleep(0.04) has elapsed.
Tick(steps) ==
    /\ nticks < MaxTicks
    /\ \E d \in steps :
          /\ d >= POLL_SLEEP
          /\ clock' = clock + d
          /\ rnd' = IF rnd.pc = "sleep" /\ clock + d >= rnd.wake
                    THEN [rnd EXCEPT !.pc = "idle", !.wake = None]
                    ELSE rnd
    /\ nticks' = nticks + 1
    /\ mon' = IF mon.pc = "sleep" THEN [mon EXCEPT !.pc = "run"] ELSE mon
    /\ UNCHANGED <<state, sysdevs, trigger, budget, log, hist, frame, boot, hub>>

\* The ports that can hold messages: opened by monitor_midi, not closed and
\* still plugged.
LivePorts ==
    IF mon.closed THEN {} ELSE SeqToSet(mon.inputs) \cap SeqToSet(sysdevs)

Batches(msgs) == UNION {[1..k -> msgs] : k \in 0..MaxQueue}

NoPending == [p \in DeviceUniverse |-> <<>>]

\* What the ports hold when the loop wakes up: nothing, or the messages of
\* batch, received in that order by one live port since the last iteration.
Received(msgs) ==
    {NoPending} \cup
    {[NoPending EXCEPT ![p] = batch] :
        p \in LivePorts, batch \in {b \in Batches(msgs) : 0 < Len(b) /\ Len(b) <= budget}}

Sent(pend) == Len(AllPending(mon.inputs, pend))

\* monitor_midi wakes up and runs one whole iteration.
Poll(msgs) ==
    /\ mon.pc = "run"
    /\ \E pend \in Received(msgs) :
          /\ budget' = budget - Sent(pend)
          /\ monitor_midi(pend)
    /\ UNCHANGED <<clock, nticks, sysdevs, trigger, rnd, frame, boot, hub>>

\* update_display draws one whole frame and goes to sleep.
Render ==
    /\ rnd.pc = "idle"
    /\ frame' = IF state.show_devices
                THEN device_frame(state, clock, frame)
                ELSE main_frame(state, draw_toprow(state, clock), read_notes(state),
                                hist.chord # {}, clock)
    /\ rnd' = [rnd EXCEPT !.pc = "sleep", !.wake = clock + RENDER_SLEEP]
    /\ UNCHANGED <<state, mon, clock, nticks, sysdevs, trigger, budget, log, hist, boot, hub>>

\* monitor_midi and update_display run as two threads over the same `state`
\* without a lock (lines 437-442), so a step of one can fall between any two
\* statements of the other.  The actions below are the pieces of one
\* iteration of each.

\* Lines 350-369: the device watcher, the clock and the flag of the iteration;
\* q is what the for loops will visit.
IngestStart(msgs) ==
    /\ mon.pc = "run"
    /\ \E pend \in Received(msgs) :
       \E w \in {watch_devices(state, mon, trigger, sysdevs, clock)} :
          /\ budget' = budget - Sent(pend)
          /\ state' = w.s
          /\ mon' = [w.m EXCEPT !.now = clock,
                                !.note_changed = FALSE,
                                !.q = IF w.reopened THEN <<>>
                                      ELSE AllPending(w.m.inputs, pend),
                                !.pc = "drain"]
          /\ hist' = ObserveChange(hist, w.reopened, clock, {})
    /\ log' = <<>>
    /\ UNCHANGED <<clock, nticks, sysdevs, trigger, rnd, frame, boot, hub>>

\* Lines 371-393: the body of the for loop, for one message.
IngestMessage ==
    /\ mon.pc = "drain"
    /\ mon.q # <<>>
    /\ \E r \in {on_message(state, mon.note_changed, Head(mon.q), mon.now)} :
          /\ state' = r.s
          /\ mon' = [mon EXCEPT !.note_changed = r.note_changed, !.q = Tail(@)]
          /\ log' = Append(log, Entry(Head(mon.q), mon.now, r, state,
                                      mon.note_changed, hist))
          /\ hist' = ObserveArm(Observe(hist, Head(mon.q), mon.now, r.accepted, r.s),
                                 state, r.s, mon.now)
    /\ UNCHANGED <<clock, nticks, sysdevs, trigger, budget, rnd, frame, boot, hub>>

\* Lines 394-396, once the for loops are done.
IngestFlash ==
    /\ mon.pc = "drain"
    /\ mon.q = <<>>
    /\ \E f \in {flash_channel(state, mon.prev_ch, mon.now)} :
          /\ state' = f.s
          /\ mon' = [mon EXCEPT !.prev_ch = f.prev_ch, !.pc = "latch"]
          /\ hist' = ObserveArm(hist, state, f.s, mon.now)
    /\ UNCHANGED <<clock, nticks, sysdevs, trigger, budget, log, rnd, frame, boot, hub>>

\* Lines 398-400 and 415-417.
IngestLatch ==
    /\ mon.pc = "latch"
    /\ \E s \in {latch_bubbles(state, mon.prev_active_notes, mon.note_changed)} :
          /\ state' = s
          /\ hist' = ObserveLatch(hist, state, s, mon.now)
    /\ mon' = [mon EXCEPT !.pc = "chord"]
    /\ UNCHANGED <<clock, nticks, sysdevs, trigger, budget, log, rnd, frame, boot, hub>>

\* Lines 401-414 or 418-431, then 432 and the sleep of line 433.
IngestChord ==
    /\ mon.pc = "chord"
    /\ state' = latch_chord(state, mon.prev_active_notes, mon.note_changed, mon.now)
    /\ mon' = [mon EXCEPT
                  !.prev_active_notes = latch_prev(state, @, mon.note_changed),
                  !.now = None, !.note_changed = FALSE, !.pc = "sleep"]
    /\ hist' = ObserveEval(ObserveLatch(hist, state, state', mon.now),
                            state, mon.prev_active_notes, mon.note_changed, FALSE)
    /\ UNCHANGED <<clock, nticks, sysdevs, trigger, budget, log, rnd, frame, boot, hub>>

\* Lines 256-298: the overlay frame, or the top row and the notes of the
\* main screen.
RenderNotes ==
    /\ rnd.pc = "idle"
    /\ IF state.show_devices
       THEN /\ frame' = device_frame(state, clock, frame)
            /\ rnd' = [rnd EXCEPT !.pc = "sleep", !.wake = clock + RENDER_SLEEP]
       ELSE /\ frame' = frame
            /\ rnd' = [rnd EXCEPT !.pc = "chord",
                                  !.now = clock,
                                  !.notes = read_notes(state),
                                  !.top = draw_toprow(state, clock),
                                  !.held_before = hist.chord # {}]
    /\ UNCHANGED <<state, mon, clock, nticks, sysdevs, trigger, budget, log, hist, boot, hub>>

\* Lines 300-331: the chord row, the frame is shown, the sleep.
RenderChord ==
    /\ rnd.pc = "chord"
    /\ frame' = main_frame(state, rnd.top, rnd.notes, rnd.held_before, rnd.now)
    /\ rnd' = [InitRnd EXCEPT !.pc = "sleep", !.wake = clock + RENDER_SLEEP]
    /\ UNCHANGED <<state, mon, clock, nticks, sysdevs, trigger, budget, log, hist, boot, hub>>

\* A device is plugged or unplugged: get_input_names() returns another list,
\* and the hot-plug hook (midihub.py notify_device_change) writes the trigger
\* file, whose mtime becomes the time of the write.
Hotplug(configs) ==
    /\ budget > 0
    /\ budget' = budget - 1
    /\ \E c \in configs : c # sysdevs /\ sysdevs' = c
    /\ trigger' = clock
    /\ UNCHANGED <<state, mon, clock, nticks, log, hist, rnd, frame, boot, hub>>

InitialDevices == <<Through, KeyA>>

FontRoles == {"font_info", "font_device"}

\* midioled.py has loaded both fonts from their files (lines 37-38) and
\* started its two threads (lines 437-442).
InitBoot == [pc |-> "running", fonts |-> [k \in FontRoles |-> "file"]]

\* midihub.py is not running, and has not run before: no lock file, no
\* command issued.
InitHub ==
    [pc |-> "idle", lock |-> None, ports |-> <<>>, cmds |-> <<>>,
     debounced |-> FALSE, connected |-> FALSE]

\* The state with midioled.py at b and midihub.py at h, with `events`
\* environment events to come.
InitFrom(events, b, h) ==
    /\ state = InitState
    /\ mon = InitMon
    /\ clock = StartTime
    /\ nticks = 0
    /\ sysdevs = InitialDevices
    /\ trigger = None
    /\ budget = events
    /\ log = <<>>
    /\ hist = InitHist
    /\ rnd = InitRnd
    /\ frame = InitFrame
    /\ boot = b
    /\ hub = h

\* The state after main() has started the two threads, with `events`
\* environment events to come.
InitWith(events) == InitFrom(events, InitBoot, InitHub)

Init == InitWith(MaxEvents)

-----------------------------------------------------------------------------
(* Spec: the ingest worker fed with note messages of two notes on two       *)
(* channels.                                                                *)

NoteMsgs ==
    {NoteOn(60, 64, 0), NoteOn(64, 64, 1), NoteOff(60, 1), NoteOn(64, 0, 0)}

TickUnit == Tick({1})
PollNotes == Poll(NoteMsgs)

Next == TickUnit \/ PollNotes

Spec == Init /\ [][Next]_vars

-----------------------------------------------------------------------------
(* Claims about the note debounce and the latch (specification Spec). *)

LogEntries == {log[i] : i \in 1..Len(log)}

Unchanged(e) == e.post = e.pre

\* C1 (as amended): if a NoteOn(n) was accepted and another NoteOn(n) is
\* drained less than NOTE_DEBOUNCE_TIME after it, the second is discarded and
\* changes nothing: not the held notes, the channel, the chord label, the
\* note's timestamp, nor the flag that makes the iteration re-evaluate the chord.
C1_NoteOnAfterAcceptedOnDiscarded ==
    \A e \in LogEntries :
        ( /\ IsNoteOn(e.msg)
          /\ e.h.on_acc_t[e.msg.note] # None
          /\ e.t - e.h.on_acc_t[e.msg.note] < NOTE_DEBOUNCE_TIME )
        => (~e.accepted /\ Unchanged(e))

\* C1 witness: a NoteOn drained in a later iteration than the accepted NoteOn
\* of the same note, less than NOTE_DEBOUNCE_TIME after it, and discarded.
C1_Witness ==
    \E e \in LogEntries :
        /\ IsNoteOn(e.msg)
        /\ e.h.on_acc_t[e.msg.note] # None
        /\ e.t > e.h.on_acc_t[e.msg.note]
        /\ e.t - e.h.on_acc_t[e.msg.note] < NOTE_DEBOUNCE_TIME
        /\ ~e.accepted

\* C1 (as stated): of any two NoteOn(n) drained less than NOTE_DEBOUNCE_TIME
\* apart, the second is discarded and changes nothing.
C1_AnyTwoNoteOnsSecondDiscarded ==
    \A e \in LogEntries :
        ( /\ IsNoteOn(e.msg)
          /\ e.h.on_t[e.msg.note] # None
          /\ e.t - e.h.on_t[e.msg.note] < NOTE_DEBOUNCE_TIME )
        => (~e.accepted /\ Unchanged(e))

\* C2 (as stated): once an iteration has drained everything, a note whose
\* last drained message is a NoteOff (or a NoteOn of velocity 0) is not held.
C2_ReleasedNoteNotHeld ==
    \A n \in NoteUniverse :
        hist.kind[n] = "off" => n \notin state.active_notes

\* The coincidence window of a release group: 100 ms.
COINCIDENCE_WINDOW == 10

\* The iteration that just ended saw the held notes become empty.
HeldJustEmptied ==
    /\ state.active_notes = {}
    /\ \E e \in LogEntries : e.pre.active_notes # {}

\* C3 (as stated): when the held notes become empty and every release since
\* the chord was complete fell within the coincidence window, the latched
\* notes are exactly that chord.
C3_LatchedIsReleaseGroup ==
    ( /\ HeldJustEmptied
      /\ hist.rel_t # None
      /\ clock - hist.rel_t <= COINCIDENCE_WINDOW )
    => SeqToSet(state.bubble_latched_notes) = hist.chord

-----------------------------------------------------------------------------
(* SpecCC: the ingest worker fed with control changes of two controllers,   *)
(* two values and two channels, and one note.                               *)

CCMsgs ==
    {ControlChange(1, 10, 0), ControlChange(1, 11, 0), ControlChange(2, 11, 1),
     NoteOn(60, 64, 1)}

PollCC == Poll(CCMsgs)

NextCC == TickUnit \/ PollCC

SpecCC == Init /\ [][NextCC]_vars

\* A ControlChange drained less than NOTE_DEBOUNCE_TIME after the previous
\* ControlChange of the same controller.
RapidCC(e) ==
    /\ IsCC(e.msg)
    /\ e.h.cc = e.msg.control
    /\ e.t - e.h.cc_t < NOTE_DEBOUNCE_TIME

C9_FlashArmedExactlyOnChange ==
    \A e \in LogEntries :
        IsCC(e.msg) =>
            /\ e.post.flash.val = IF e.msg.value # e.h.val
                                  THEN e.t + FLASH_TIME ELSE e.pre.flash.val
            /\ e.post.flash.cc = IF e.msg.control # e.h.cc
                                 THEN e.t + FLASH_TIME ELSE e.pre.flash.cc

\* C9 witness: controller 1 alternates between 10 and 11 in successive
\* iterations; the event that repeats the controller with the other value has
\* re-armed val and left the older cc window alone.
C9_Witness ==
    \E e \in LogEntries :
        /\ RapidCC(e)
        /\ e.h.val # e.msg.value
        /\ e.pre.flash.val < e.t + FLASH_TIME
        /\ e.post.flash.val = e.t + FLASH_TIME
        /\ e.post.flash.cc < e.t + FLASH_TIME

\* C10 (as stated): when an accepted event of the iteration that just ended
\* changed the stored channel, the ch window is armed until FLASH_TIME after
\* that iteration.
C10_ChannelChangeArmsFlash ==
    \A e \in LogEntries :
        (e.accepted /\ e.post.channel # e.pre.channel)
        => state.toprow_values_flash_until.ch = e.t + FLASH_TIME

-----------------------------------------------------------------------------
(* SpecHotplug: the ingest worker fed with the NoteOn and NoteOff of one    *)
(* note and a control change, while a second keyboard is plugged and        *)
(* unplugged.  Iterations are NOTE_DEBOUNCE_TIME + 1 apart, so a note event *)
(* is debounced only against the events drained with it.                    *)

LatchMsgs ==
    {NoteOn(60, 64, 0), NoteOff(60, 0), ControlChange(1, 10, 0)}

DeviceConfigs == {<<Through, KeyA>>, <<Through, KeyA, KeyB>>}

PollLatch == Poll(LatchMsgs)
HotplugKeys == Hotplug(DeviceConfigs)

\* Time advances by just more than the debounce time at once.
TickDebounce == Tick({NOTE_DEBOUNCE_TIME + 1})

NextHotplug == TickDebounce \/ PollLatch \/ HotplugKeys

SpecHotplug == Init /\ [][NextHotplug]_vars

\* The step is an iteration of monitor_midi that accepted a NoteOn.
AcceptsNoteOn ==
    /\ mon.pc = "run"
    /\ mon'.pc = "sleep"
    /\ \E i \in 1..Len(log') : IsNoteOn(log'[i].msg) /\ log'[i].accepted

\* C5: once the latched notes are set, no step changes them except an
\* iteration that accepts a NoteOn, and such an iteration empties them.
C5_LatchedUntilNextNoteOn ==
    [][ state.bubble_latched_notes # <<>> =>
            IF AcceptsNoteOn
            THEN state'.bubble_latched_notes = <<>>
            ELSE state'.bubble_latched_notes = state.bubble_latched_notes ]_vars

\* C5 witness: with notes latched, the iteration that just ended drained a
\* ControlChange and an accepted NoteOff of a note that was not held; the
\* notes are still latched.
C5_Witness ==
    /\ state.bubble_latched_notes # <<>>
    /\ \E e \in LogEntries : e.pre.bubble_latched_notes # <<>> /\ IsCC(e.msg)
    /\ \E e \in LogEntries :
          /\ e.pre.bubble_latched_notes # <<>>
          /\ IsNoteOff(e.msg) /\ e.accepted
          /\ e.msg.note \notin e.pre.active_notes

-----------------------------------------------------------------------------
(* SpecRender: both threads, each running a whole iteration at a time, fed  *)
(* with one note.  While the device overlay is up, time also advances by   *)
(* DEVICE_DISPLAY_TIME at once, which ends the overlay shown at startup.    *)

RenderMsgs == {NoteOn(60, 64, 0), NoteOff(60, 0)}

TickLong ==
    Tick(IF state.show_devices THEN {POLL_SLEEP, DEVICE_DISPLAY_TIME} ELSE {POLL_SLEEP})

PollRender == Poll(RenderMsgs)

NextRender == TickLong \/ PollRender \/ Render

SpecRender == Init /\ [][NextRender]_vars

\* The longest time the latched notes are to stay on screen: two seconds.
LATCH_DURATION == 200

\* C4 (as stated): a frame of the main screen drawn LATCH_DURATION or more
\* after the notes were latched, with no message drained since, shows the
\* placeholder.
C4_LatchRevertsToPlaceholder ==
    ( /\ frame.mode = "main"
      /\ hist.latch_t # None
      /\ hist.quiet
      /\ frame.t >= hist.latch_t + LATCH_DURATION )
    => frame.placeholder

-----------------------------------------------------------------------------
(* SpecWide: as SpecRender, but the notes of NoteUniverse are pressed one   *)
(* after the other, lowest first, and none is released.                     *)

\* The NoteOn of the lowest note that is not held.
NextNoteMsgs ==
    IF state.active_notes = NoteUniverse THEN {}
    ELSE {NoteOn(Min(NoteUniverse \ state.active_notes), 64, 0)}

PollWide == Poll(NextNoteMsgs)

NextWide == TickLong \/ PollWide \/ Render

InitWide == InitWith(MaxHeld)

SpecWide == InitWide /\ [][NextWide]_vars

\* The display maximum of the note row.
DISPLAY_MAXIMUM == 5

\* C6 (as stated): a frame never shows more than DISPLAY_MAXIMUM notes.
C6_ShownNotesBounded ==
    frame.mode = "main" => Len(frame.bubbles) <= DISPLAY_MAXIMUM

-----------------------------------------------------------------------------
(* SpecRace: the two threads interleaved statement by statement, fed with   *)
(* notes pressed lowest first and the release of the lowest.                *)

RaceMsgs == NextNoteMsgs \cup {NoteOff(60, 0)}

IngestRace == IngestStart(RaceMsgs)

NextRace ==
    \/ TickLong
    \/ IngestRace
    \/ IngestMessage
    \/ IngestFlash
    \/ IngestLatch
    \/ IngestChord
    \/ RenderNotes
    \/ RenderChord

InitRace == InitWith(RaceEvents)

SpecRace == InitRace /\ [][NextRace]_vars

\* C7 (as stated): under every interleaving of the two threads, the chord
\* label of a frame with three to six notes is the label evaluated for the
\* notes of that frame, and no frame shows the emptied held notes without
\* their latched replacement: the placeholder appears only if no note was
\* ever held.  (The formula holds when each thread runs a whole iteration
\* at a time, as in SpecRender and SpecWide.)
C7_NoTornFrame ==
    frame.mode = "main" =>
        /\ (3 <= Len(frame.note_vals) /\ Len(frame.note_vals) <= 6)
           => frame.chord_name = detect_chord(SeqToSet(frame.note_vals)).chord_str
        /\ frame.placeholder => ~frame.held_before

-----------------------------------------------------------------------------
(* SpecChord: the keys of ChordOrder are pressed in that order and held:    *)
(* C, E and G form a major triad, the C sharp added last makes the held     *)
(* set one that detect_chord does not know.                                 *)

ChordOrder == <<60, 64, 67, 61>>

\* The NoteOn of the next key of ChordOrder.
ChordMsgs ==
    IF Cardinality(state.active_notes) >= Len(ChordOrder) THEN {}
    ELSE {NoteOn(ChordOrder[Cardinality(state.active_notes) + 1], 64, 0)}

PollChord == Poll(ChordMsgs)

NextChord == TickLong \/ PollChord \/ Render

SpecChord == Init /\ [][NextChord]_vars

\* C11 (as stated): whenever the chord label shown changes, the chord flash
\* window is armed, so every main frame drawn less than FLASH_TIME after the
\* change draws the chord row inverted.
C11_LabelChangeFlashesChordRow ==
    (/\ frame.mode = "main"
     /\ hist.label_t # None
     /\ hist.label_t <= frame.t
     /\ frame.t < hist.label_t + FLASH_TIME)
    => frame.chord_invert

\* C13 (as stated): the chord row never shows the text of an Unrecognized
\* evaluation; while the current evaluation is Unrecognized it shows the
\* last recognized label.
C13_UnrecognizedNeverShown ==
    frame.mode = "main" => frame.chord.kind # "notes"

-----------------------------------------------------------------------------
(* SpecFlash: control changes that arm the three flash windows of the top   *)
(* row, and clock steps that land inside a window and on its end.           *)

FlashMsgs == {ControlChange(1, 10, 0), ControlChange(1, 11, 1)}

PollFlash == Poll(FlashMsgs)

TickFlash ==
    Tick(IF state.show_devices THEN {DEVICE_DISPLAY_TIME}
         ELSE {POLL_SLEEP, FLASH_TIME - POLL_SLEEP})

NextFlash == TickFlash \/ PollFlash \/ Render

InitFlash == InitWith(FlashEvents)

SpecFlash == InitFlash /\ [][NextFlash]_vars

\* The window of field k, written last at hist.arm_t[k], covers time t.
InWindow(k, t) ==
    /\ hist.arm_t[k] # None
    /\ hist.arm_t[k] <= t
    /\ t < hist.arm_t[k] + FLASH_TIME

\* C12: a main frame drawn at time t draws a top-row value inverted exactly
\* when t is in [a, a + FLASH_TIME) for the time a the value's window was
\* last armed, and never before the first arming; no step moves the expiry
\* of a window to an earlier time.
C12_FlashWindowExact ==
    [][/\ (rnd.pc = "idle" /\ rnd'.pc = "sleep" /\ frame'.mode = "main")
          => \A k \in FlashKeys : frame'.top[k].invert <=> InWindow(k, clock)
       /\ \A k \in FlashKeys :
             state'.toprow_values_flash_until[k] >= state.toprow_values_flash_until[k]
      ]_vars

\* A frame drawn in the last unit of a window that was armed, still inverted,
\* while another armed window of the same frame has expired.
C12_Witness ==
    /\ frame.mode = "main"
    /\ \E k \in FlashKeys :
          /\ hist.arm_t[k] # None
          /\ frame.t = hist.arm_t[k] + FLASH_TIME - 1
          /\ frame.top[k].invert
    /\ \E k \in FlashKeys :
          /\ hist.arm_t[k] # None
          /\ frame.t >= hist.arm_t[k] + FLASH_TIME
          /\ ~frame.top[k].invert

-----------------------------------------------------------------------------
(* SpecSizes: any number of keys pressed at once, lowest keys first, and    *)
(* all held keys released at once, so that chords of every size from 1 to   *)
(* 7 are evaluated on the held path and on the latch path.                  *)

\* The NoteOns of the keys of S, lowest first.
PressKeys(S) == [i \in 1..Cardinality(S) |-> NoteOn(sorted(S)[i], 64, 0)]

\* The NoteOffs of the keys of S, lowest first.
ReleaseKeys(S) == [i \in 1..Cardinality(S) |-> NoteOff(sorted(S)[i], 0)]

\* monitor_midi runs one iteration in which a live port has received `batch`.
PollBatch(batch) ==
    /\ mon.pc = "run"
    /\ budget > 0
    /\ batch # <<>>
    /\ \E p \in LivePorts : monitor_midi([NoPending EXCEPT ![p] = batch])
    /\ budget' = budget - 1
    /\ UNCHANGED <<clock, nticks, sysdevs, trigger, rnd, frame, boot, hub>>

\* monitor_midi runs one iteration and finds no message.
PollIdle ==
    /\ mon.pc = "run"
    /\ monitor_midi(NoPending)
    /\ UNCHANGED <<clock, nticks, sysdevs, trigger, budget, rnd, frame, boot, hub>>

\* The k lowest keys that are not held.
LowestKeys(k) ==
    {n \in NoteUniverse \ state.active_notes :
        Cardinality({m \in NoteUniverse \ state.active_notes : m < n}) < k}

PollPress == \E k \in 1..Cardinality(NoteUniverse) : PollBatch(PressKeys(LowestKeys(k)))

PollRelease == PollBatch(ReleaseKeys(state.active_notes))

NextSizes == TickDebounce \/ PollIdle \/ PollPress \/ PollRelease

InitSizes == InitWith(SizeEvents)

SpecSizes == InitSizes /\ [][NextSizes]_vars

ChordSizes == 3..6

\* C14: an evaluation calls detect_chord only with a note set of 3 to 6
\* notes, on the held path and on the latch path; for a set of any other
\* size it makes no call and leaves the current chord label empty.
C14_ClassifierOnlyForThreeToSix ==
    \A i \in 1..Len(hist.eval) :
        /\ \A a \in hist.eval[i].calls : Cardinality(a) \in ChordSizes
        /\ Cardinality(hist.eval[i].notes) \notin ChordSizes
              => /\ hist.eval[i].calls = {}
                 /\ state.chord_name = EmptyLabel

\* Seven keys were released at once: the latch path evaluated a set that is
\* too large, after the held path had evaluated it.
C14_Witness ==
    /\ hist.eval # <<>>
    /\ hist.eval[1].latch
    /\ Cardinality(hist.eval[1].notes) = 7
    /\ hist.eval[1].calls = {}
    /\ state.chord_name = EmptyLabel
    /\ state.last_chord_persist = EmptyLabel

-----------------------------------------------------------------------------
(* SpecBubbles: one key pressed and released while frames are drawn, so     *)
(* that the note row shows held notes, latched notes and the placeholder.   *)

PollBubbles == Poll(RenderMsgs)

TickBubbles ==
    Tick(IF state.show_devices THEN {DEVICE_DISPLAY_TIME}
         ELSE {POLL_SLEEP, NOTE_DEBOUNCE_TIME})

NextBubbles == TickBubbles \/ PollBubbles \/ Render

InitBubbles == InitWith(BubbleEvents)

SpecBubbles == InitBubbles /\ [][NextBubbles]_vars

\* The note row of frame f, drawn while the held notes and the latched notes
\* are those of s.
BubbleRowShows(s, f) ==
    /\ s.active_notes # {}
          => /\ f.note_vals = sorted(s.active_notes)
             /\ ~f.placeholder
             /\ \A i \in 1..Len(f.bubbles) : f.bubbles[i].invert
    /\ (s.active_notes = {} /\ s.bubble_latched_notes # <<>>)
          => /\ f.note_vals = s.bubble_latched_notes
             /\ ~f.placeholder
             /\ \A i \in 1..Len(f.bubbles) : ~f.bubbles[i].invert
    /\ (s.active_notes = {} /\ s.bubble_latched_notes = <<>>)
          => f.placeholder /\ f.bubbles = <<>>
    /\ Len(f.bubbles) = Len(f.note_vals)
    /\ \A i \in 1..Len(f.bubbles) :
          /\ f.bubbles[i].name = midi_note_to_name(f.note_vals[i])
          /\ f.bubbles[i].invert <=> f.note_vals[i] \in s.active_notes

-----------------------------------------------------------------------------
(* SpecDevices: devices are plugged, unplugged and re-enumerated under      *)
(* another bracketed suffix while the watcher polls, and open_input can     *)
(* raise for a device that is being opened.                                 *)

DeviceLists == {<<Through, KeyA>>, <<Through, KeyA1>>, <<Through, KeyA1, KeyB>>}

HotplugDevices == Hotplug(DeviceLists)

\* The watcher, run now, would find a changed list and reopen the ports.
ListDiffers ==
    /\ check_for_device_update(state, trigger).changed \/ mon.inputs = <<>>
    /\ filter_device_names(sysdevs) # mon.last_device_list

\* monitor_midi runs an iteration in which open_input raises for the device
\* d (line 359); the except clause of line 434 logs the error and the loop
\* goes on to its next iteration without sleeping.
PollOpenFails ==
    /\ mon.pc = "run"
    /\ ListDiffers
    /\ budget > 0
    /\ budget' = budget - 1
    /\ \E d \in SeqToSet(open_inputs(sysdevs)) :
       \E w \in {watch_devices_raises(state, mon, trigger, sysdevs)} :
          /\ state' = w.s
          /\ mon' = w.m
          /\ hist' = ObserveChange(hist, TRUE, clock, {d})
    /\ UNCHANGED <<clock, nticks, sysdevs, trigger, log, rnd, frame, boot, hub>>

TickDevices == Tick({POLL_SLEEP, DEVICE_DISPLAY_TIME})

NextDevices == TickDevices \/ PollIdle \/ HotplugDevices \/ PollOpenFails

InitDevices == InitWith(DeviceEvents)

SpecDevices == InitDevices /\ [][NextDevices]_vars

\* The trigger file has a revision the watcher has not seen.
RevisionBump == check_for_device_update(state, trigger).changed

\* C15: an iteration of the watcher that sees a revision bump while the
\* filtered list of the enumerated names equals the previous one does not
\* enter the show-devices mode, leaves the device list and the scroll start
\* time alone, and closes and opens no port.
C15_BumpWithSameListChangesNothing ==
    [][(/\ mon.pc = "run"
        /\ RevisionBump
        /\ state'.last_device_update = trigger
        /\ filter_device_names(sysdevs) = mon.last_device_list)
       => /\ state'.show_devices => state.show_devices
          /\ state'.devices = state.devices
          /\ state'.device_scroll_time = state.device_scroll_time
          /\ mon'.inputs = mon.inputs
          /\ mon'.closed = mon.closed
          /\ mon'.last_device_list = mon.last_device_list
          /\ mon'.shown_at = mon.shown_at
      ]_vars

\* The watcher has seen the bump written when KeyA came back as KeyA [1]:
\* it still has the port and the device list of KeyA.
C15_Witness ==
    /\ trigger # None
    /\ state.last_device_update = trigger
    /\ sysdevs = <<Through, KeyA1>>
    /\ state.devices = <<Through, KeyA>>
    /\ mon.inputs = <<KeyA>>
    /\ ~mon.closed
    /\ hist.change_t = StartTime

\* C16 (as stated): after a list change the show-devices mode is on until
\* DEVICE_DISPLAY_TIME has elapsed since the most recent list change, and
\* it is off once a poll has run later than that.
C16_ShowDevicesEndsAfterDisplayTime ==
    (mon.pc = "sleep" /\ hist.change_t # None)
    => /\ clock - hist.change_t > DEVICE_DISPLAY_TIME => ~state.show_devices
       /\ clock - hist.change_t <= DEVICE_DISPLAY_TIME => state.show_devices

\* C17 (as stated): after a list change in which open_input raised for one
\* device, every other enumerated device that is not a through port has an
\* open port.
C17_OnlyFailingDeviceSkipped ==
    (hist.change_t # None /\ hist.open_failed # {})
    => \A d \in SeqToSet(open_inputs(state.devices)) \ hist.open_failed :
          d \in SeqToSet(mon.inputs) /\ ~mon.closed

-----------------------------------------------------------------------------
(* SpecOverlay: right after the start a list of more ports than the overlay *)
(* has lines is plugged in, and both loops run on time for one display      *)
(* period: in every unit of 10 ms monitor_midi runs its iteration and       *)
(* update_display draws its frame as soon as its sleep is over.             *)

OverlayLists == {Ports(7), Ports(Len(PortNames))}

\* The ports are plugged in within the first frame period.
HotplugPorts ==
    /\ clock < StartTime + RENDER_SLEEP
    /\ Hotplug(OverlayLists)

\* The time the two loops are followed for.
OverlayHorizon == StartTime + RENDER_SLEEP + DEVICE_DISPLAY_TIME + RENDER_SLEEP

\* 10 ms pass, once both loops have done what is due now.
Elapse ==
    /\ mon.pc = "sleep"
    /\ rnd.pc = "sleep"
    /\ clock < OverlayHorizon
    /\ clock' = clock + POLL_SLEEP
    /\ rnd' = IF clock + POLL_SLEEP >= rnd.wake
              THEN [rnd EXCEPT !.pc = "idle", !.wake = None]
              ELSE rnd
    /\ mon' = [mon EXCEPT !.pc = "run"]
    /\ UNCHANGED <<state, nticks, sysdevs, trigger, budget, log, hist, frame, boot, hub>>

NextOverlay == Elapse \/ PollIdle \/ Render \/ HotplugPorts

InitOverlay == InitWith(OverlayEvents)

SpecOverlay == InitOverlay /\ [][NextOverlay]_vars

\* The overlay frame shown scrolls a list longer than the overlay.
Scrolling ==
    frame.mode = "devices" /\ Len(frame.devices) > MAX_DEVICE_LINES

\* The names of a frame are drawn top to bottom in enumeration order, and
\* every index read is an index of the list.
LinesInOrder ==
    /\ \A i \in 1..Len(frame.lines) :
          0 <= frame.lines[i].idx /\ frame.lines[i].idx < Len(frame.devices)
    /\ \A i, j \in 1..Len(frame.lines) :
          i < j => /\ frame.lines[i].idx < frame.lines[j].idx
                   /\ frame.lines[i].y < frame.lines[j].y

\* C18 (as stated): while a list longer than the overlay is shown, the names
\* of every frame are drawn top to bottom in enumeration order from indices
\* of the list, and by the last frame of the display duration every name
\* has been drawn at least once.
C18_EveryNameDrawnInOrder ==
    Scrolling
    => /\ LinesInOrder
       /\ frame.since > DEVICE_DISPLAY_TIME - RENDER_SLEEP
             => frame.seen = 0..(Len(frame.devices) - 1)

\* The scroll offset that shows the last page.
maxOffset == (Len(frame.devices) - MAX_DEVICE_LINES) * LINE_H

\* C19 (as stated): the scroll offset stays within [0, maxOffset], never
\* falls back within one overlay period, and is held at maxOffset once the
\* display duration is over.
C19_ScrollClampedNeverWraps ==
    Scrolling
    => /\ 0 <= frame.offset /\ frame.offset <= maxOffset
       /\ frame.offset = frame.peak
       /\ frame.since >= DEVICE_DISPLAY_TIME => frame.offset = maxOffset

-----------------------------------------------------------------------------
(* SpecClassify: a C major triad and a single key are pressed and all keys  *)
(* released at once, and in any iteration music21 may raise inside          *)
(* detect_chord.                                                            *)

ClassifyKeys == {{60, 64, 67}, {62}}

\* monitor_midi runs one iteration in which a live port has received `batch`
\* and music21 raises in every call of detect_chord.
PollBatchRaises(batch) ==
    /\ mon.pc = "run"
    /\ budget > 0
    /\ batch # <<>>
    /\ \E p \in LivePorts : monitor_midi_try([NoPending EXCEPT ![p] = batch], TRUE)
    /\ budget' = budget - 1
    /\ UNCHANGED <<clock, nticks, sysdevs, trigger, rnd, frame, boot, hub>>

PollPressChord ==
    \E S \in ClassifyKeys : S \cap state.active_notes = {} /\ PollBatch(PressKeys(S))

PollPressChordRaises ==
    \E S \in ClassifyKeys : S \cap state.active_notes = {} /\ PollBatchRaises(PressKeys(S))

PollReleaseRaises == PollBatchRaises(ReleaseKeys(state.active_notes))

NextClassify ==
    \/ TickDebounce
    \/ PollIdle
    \/ PollPressChord
    \/ PollRelease
    \/ PollPressChordRaises
    \/ PollReleaseRaises

InitClassify == InitWith(ClassifyEvents)

SpecClassify == InitClassify /\ [][NextClassify]_vars

\* C21: when detect_chord raised inside the last evaluation, the iteration
\* went on to its end: the result stored is the Unrecognized one,
\* last_chord_persist is what it was before the evaluation, the latched
\* notes were set or cleared, and the held set was recorded as the previous
\* held set.
C21_ClassifierExceptionContained ==
    \A i \in 1..Len(hist.eval) :
        hist.eval[i].raised
        => /\ state.unknown_chord
           /\ state.chord_name = detect_chord_except(hist.eval[i].notes).chord_str
           /\ state.chord_name.kind = "notes"
           /\ state.last_chord_persist = hist.eval[i].persist
           /\ mon.prev_active_notes = state.active_notes
           /\ hist.eval[i].latch => state.bubble_latched_notes = sorted(hist.eval[i].notes)
           /\ ~hist.eval[i].latch => state.bubble_latched_notes = <<>>

\* detect_chord raised for C major with a D added, after C major had been
\* recognized: the C major label is still the last recognized one.
C21_Witness ==
    /\ hist.eval # <<>>
    /\ hist.eval[1].raised
    /\ hist.eval[1].notes = {60, 62, 64, 67}
    /\ state.last_chord_persist = detect_chord({60, 64, 67}).chord_str
    /\ state.unknown_chord
    /\ mon.prev_active_notes = {60, 62, 64, 67}

-----------------------------------------------------------------------------
(* SpecStartup: midioled.py from its import on: the two fonts are loaded,   *)
(* each from a file that may be missing, then the threads are started and   *)
(* one key is played while frames are drawn.                                *)

StartupEvents == 1

\* try_load_font(path, fallback): the font of the file when it loads, else
\* PIL's default font when fallback is set, else None.
try_load_font(loadable, fallback) ==
    IF loadable THEN "file"
    ELSE IF fallback THEN "default" ELSE "none"

\* Module level, lines 37-38: both fonts are loaded with the default
\* fallback=True; `missing` are the roles whose file cannot be loaded.
LoadFonts ==
    /\ boot.pc = "import"
    /\ \E missing \in SUBSET FontRoles :
          boot' = [pc |-> "loaded",
                   fonts |-> [k \in FontRoles |-> try_load_font(k \notin missing, TRUE)]]
    /\ UNCHANGED <<state, mon, clock, nticks, sysdevs, trigger, budget, log, hist, rnd, frame, hub>>

\* __main__, lines 437-442: both threads are started, whatever was loaded.
StartThreads ==
    /\ boot.pc = "loaded"
    /\ boot' = [boot EXCEPT !.pc = "running"]
    /\ UNCHANGED <<state, mon, clock, nticks, sysdevs, trigger, budget, log, hist, rnd, frame, hub>>

Running == boot.pc = "running"

PollStartup == Running /\ PollBubbles

TickStartup == Running /\ TickBubbles

RenderStartup == Running /\ Render

NextStartup == LoadFonts \/ StartThreads \/ PollStartup \/ TickStartup \/ RenderStartup

InitStartup ==
    InitFrom(StartupEvents, [pc |-> "import", fonts |-> [k \in FontRoles |-> "none"]], InitHub)

SpecStartup == InitStartup /\ [][NextStartup]_vars

\* C22: the workers run only with every font loaded from its file: a font
\* that cannot be loaded keeps the program from starting them.
C22_MissingFontIsFatal ==
    Running => \A k \in FontRoles : boot.fonts[k] = "file"

-----------------------------------------------------------------------------
(* SpecHub: runs of midihub.py, the script udev starts on a hot-plug event. *)
(* A run checks the lock file, disconnects every port, lists the clients,   *)
(* connects every pair of ports, routes audio and writes the trigger file.  *)

HubEvents == 2

DEBOUNCE_SECONDS == 200

\* A client line of `aconnect -i -l`.
Client(number, name) == [client |-> number, name |-> name]

\* The clients the ALSA sequencer always has, and the keyboards that may be
\* plugged in.
SystemClients == <<Client(0, "System"), Client(14, "Midi Through")>>

Keyboards == <<Client(20, "KeyA"), Client(24, "KeyB"), Client(28, "KeyC"), Client(32, "KeyD")>>

\* The listings of aconnect: the system clients, then the plugged keyboards
\* by client number.
Listings ==
    {SystemClients \o SelectSeq(Keyboards, LAMBDA c : c \in plugged) :
        plugged \in SUBSET SeqToSet(Keyboards)}

\* recently_triggered(): the run exits when the lock file exists and is
\* younger than DEBOUNCE_SECONDS; otherwise the lock file is written.
recently_triggered_ignores_lock(lock, now) ==
    [exit |-> FALSE, lock |-> now]

recently_triggered(lock, now) ==
    IF lock # None /\ now - lock < DEBOUNCE_SECONDS
    THEN [exit |-> TRUE, lock |-> lock]
    ELSE [exit |-> FALSE, lock |-> now]

\* get_midi_ports(): the client numbers of the listing, without client 0
\* and without the clients whose name contains "Through".
RECURSIVE get_midi_ports(_)
get_midi_ports(listing) ==
    IF listing = <<>> THEN <<>>
    ELSE LET c == Head(listing)
             rest == get_midi_ports(Tail(listing))
         IN  IF c.client # 0 /\ c.name # "Midi Through" THEN <<c.client>> \o rest
             ELSE rest

\* subprocess.call(f"aconnect {src}:0 {dst}:0")
aconnect_to_self(src, dst) == [cmd |-> "connect", src |-> src, dst |-> src]

aconnect(src, dst) == [cmd |-> "connect", src |-> src, dst |-> dst]

\* for j in range(i + 1, n): both directions of the pair (i, j)
RECURSIVE connect_pairs_from(_, _, _)
connect_pairs_from(ports, i, j) ==
    IF j > Len(ports) THEN <<>>
    ELSE <<aconnect(ports[i], ports[j]), aconnect(ports[j], ports[i])>>
         \o connect_pairs_from(ports, i, j + 1)

\* for i in range(n)
RECURSIVE connect_from(_, _)
connect_from(ports, i) ==
    IF i > Len(ports) THEN <<>>
    ELSE connect_pairs_from(ports, i, i + 1) \o connect_from(ports, i + 1)

\* connect_all_ports(ports): the commands it issues, in order.
connect_all_ports(ports) ==
    IF Len(ports) < 2 THEN <<>> ELSE connect_from(ports, 1)

HubUnchanged ==
    UNCHANGED <<state, mon, clock, nticks, sysdevs, log, hist, rnd, frame, boot>>

\* udev starts the script; the previous run has ended.
HubStart ==
    /\ hub.pc \in {"idle", "exited"}
    /\ budget > 0
    /\ budget' = budget - 1
    /\ hub' = [hub EXCEPT !.pc = "recently_triggered", !.ports = <<>>,
                          !.cmds = <<>>, !.debounced = FALSE,
                          !.connected = FALSE]
    /\ UNCHANGED trigger
    /\ HubUnchanged

\* main, line 159
HubDebounce ==
    /\ hub.pc = "recently_triggered"
    /\ \E r \in {recently_triggered(hub.lock, clock)} :
          hub' = [hub EXCEPT !.pc = IF r.exit THEN "exited" ELSE "disconnect_all_midi",
                             !.lock = r.lock,
                             !.debounced = r.exit]
    /\ UNCHANGED <<trigger, budget>>
    /\ HubUnchanged

\* main, line 160
HubDisconnect ==
    /\ hub.pc = "disconnect_all_midi"
    /\ hub' = [hub EXCEPT !.pc = "get_midi_ports",
                          !.cmds = Append(@, [cmd |-> "disconnect"])]
    /\ UNCHANGED <<trigger, budget>>
    /\ HubUnchanged

\* main, line 161
HubGetPorts ==
    /\ hub.pc = "get_midi_ports"
    /\ \E listing \in Listings :
          hub' = [hub EXCEPT !.pc = "connect_all_ports",
                             !.ports = get_midi_ports(listing)]
    /\ UNCHANGED <<trigger, budget>>
    /\ HubUnchanged

\* main, line 161, when aconnect fails: run_command calls sys.exit(1).
HubGetPortsFails ==
    /\ hub.pc = "get_midi_ports"
    /\ hub' = [hub EXCEPT !.pc = "exited"]
    /\ UNCHANGED <<trigger, budget>>
    /\ HubUnchanged

\* main, line 162
HubConnect ==
    /\ hub.pc = "connect_all_ports"
    /\ hub' = [hub EXCEPT !.pc = "run_audio_autorouter",
                          !.cmds = @ \o connect_all_ports(hub.ports),
                          !.connected = TRUE]
    /\ UNCHANGED <<trigger, budget>>
    /\ HubUnchanged

\* main, lines 164-167: audio routing issues no MIDI command, and what it
\* raises is caught.
HubAudio ==
    /\ hub.pc = "run_audio_autorouter"
    /\ hub' = [hub EXCEPT !.pc = "notify_device_change"]
    /\ UNCHANGED <<trigger, budget>>
    /\ HubUnchanged

\* main, lines 168-170: the trigger file is written, or the write raises and
\* the exception is logged; then sys.exit(0).
HubNotify ==
    /\ hub.pc = "notify_device_change"
    /\ \E written \in BOOLEAN :
          /\ trigger' = IF written THEN clock ELSE trigger
          /\ hub' = [hub EXCEPT !.pc = "exited",
                                !.cmds = IF written THEN Append(@, [cmd |-> "trigger"])
                                         ELSE @]
    /\ UNCHANGED budget
    /\ HubUnchanged

TickHub == Tick({POLL_SLEEP, DEBOUNCE_SECONDS - 1})

NextHub ==
    \/ TickHub
    \/ HubStart
    \/ HubDebounce
    \/ HubDisconnect
    \/ HubGetPorts
    \/ HubGetPortsFails
    \/ HubConnect
    \/ HubAudio
    \/ HubNotify

InitHubRuns == InitWith(HubEvents)

SpecHub == InitHubRuns /\ [][NextHub]_vars

\* The connect commands the run has issued.
Connects == SelectSeq(hub.cmds, LAMBDA c : c.cmd = "connect")

\* The number of connect commands from a to b.
ConnectCount(a, b) ==
    Cardinality({i \in 1..Len(Connects) : Connects[i].src = a /\ Connects[i].dst = b})

\* C26: once connect_all_ports has returned, it has issued one connect
\* command for every ordered pair of distinct ports, n * (n - 1) in all,
\* none from a port to itself, and none at all for fewer than two ports.
C26_EveryOrderedPairOnce ==
    hub.connected
    => LET P == SeqToSet(hub.ports)
           n == Len(hub.ports)
       IN  /\ \A a \in P : \A b \in P \ {a} : ConnectCount(a, b) = 1
           /\ \A i \in 1..Len(Connects) :
                 /\ Connects[i].src # Connects[i].dst
                 /\ Connects[i].src \in P
                 /\ Connects[i].dst \in P
           /\ Len(Connects) = n * (n - 1)
           /\ n < 2 => Connects = <<>>

\* connect_all_ports has returned for four ports, with twelve commands.
C26_Witness ==
    /\ hub.connected
    /\ Len(hub.ports) = 4
    /\ Len(Connects) = 12
    /\ ConnectCount(32, 20) = 1

\* The run has written the trigger file as its last command, after the
\* disconnect-all command and after every connect command for its ports.
TriggerWrittenLast(h) ==
    LET n == Len(h.cmds)
    IN  /\ n >= 2
        /\ h.cmds[n].cmd = "trigger"
        /\ h.cmds[1].cmd = "disconnect"
        /\ h.connected
        /\ SubSeq(h.cmds, 2, n - 1) = connect_all_ports(h.ports)

\* The run is at its lock file check and the lock file is younger than
\* DEBOUNCE_SECONDS.
YoungLock ==
    /\ hub.pc = "recently_triggered"
    /\ hub.lock # None
    /\ clock - hub.lock < DEBOUNCE_SECONDS

\* C27: a step that writes the trigger file is the last of a run that has
\* issued the disconnect-all command and every connect command; a run that
\* finds the lock file younger than DEBOUNCE_SECONDS exits at once, with no
\* command issued and the trigger file left alone, and stays so.
C27_TriggerAfterCommandsAndDebouncedRunExits ==
    [][/\ (trigger' # trigger \/ \E i \in 1..Len(hub'.cmds) : hub'.cmds[i].cmd = "trigger")
          => TriggerWrittenLast(hub')
       /\ (YoungLock /\ hub' # hub)
          => hub'.debounced /\ hub'.pc = "exited"
       /\ hub'.debounced
          => hub'.pc = "exited" /\ hub'.cmds = <<>> /\ trigger' = trigger]_vars

\* A run has written the trigger file, and the next run, started less than
\* DEBOUNCE_SECONDS after it, has exited at the lock file check.
C27_Witness ==
    /\ hub.debounced
    /\ trigger # None
    /\ clock - hub.lock = DEBOUNCE_SECONDS - 1

-----------------------------------------------------------------------------
(* The debounce of one note against rejected events and other notes         *)
(* (specification Spec).                                                    *)

IsNote(msg) == IsNoteOn(msg) \/ IsNoteOff(msg)

\* C24: a note message drained more than NOTE_DEBOUNCE_TIME after the last
\* accepted message of its note is accepted, whatever was rejected for the
\* note or drained for other notes in between; a rejected message leaves
\* every timestamp as it was, and an accepted one changes only its note's.
C24_DebouncePerNoteFromLastAccepted ==
    \A e \in LogEntries :
        IsNote(e.msg)
        => /\ ( /\ e.h.acc_t[e.msg.note] # None
                /\ e.t - e.h.acc_t[e.msg.note] > NOTE_DEBOUNCE_TIME )
              => e.accepted
           /\ ~e.accepted => e.post.note_timestamps = e.pre.note_timestamps
           /\ \A n \in NoteUniverse \ {e.msg.note} :
                 e.post.note_timestamps[n] = e.pre.note_timestamps[n]
           /\ e.h.acc_t[e.msg.note] # None
              => e.pre.note_timestamps[e.msg.note] = e.h.acc_t[e.msg.note]

\* A NoteOn of note 60 is accepted more than NOTE_DEBOUNCE_TIME after the
\* last accepted one, although a NoteOn of 60 was rejected and a message of
\* note 64 was accepted in between.
C24_Witness ==
    \E e \in LogEntries :
        /\ IsNoteOn(e.msg)
        /\ e.msg.note = 60
        /\ e.accepted
        /\ e.h.acc_t[60] # None
        /\ e.t - e.h.acc_t[60] > NOTE_DEBOUNCE_TIME
        /\ e.h.on_t[60] > e.h.acc_t[60]
        /\ e.h.acc_t[64] # None
        /\ e.h.acc_t[64] > e.h.acc_t[60]

-----------------------------------------------------------------------------
(* The open ports after a revision bump (specification SpecDevices).        *)

\* The ports monitor_midi holds open.
OpenPorts == IF mon.closed THEN {} ELSE SeqToSet(mon.inputs)

\* The enumerated devices whose name does not contain "Through".
EnumeratedDevices == {d \in SeqToSet(sysdevs) : ~HasThrough(d)}

\* C25 (as stated): at the end of an iteration of the watcher, when it has
\* processed the latest revision bump, written before this iteration's
\* time, and no open_input has raised, the open ports are those of the
\* enumerated devices that are not "Through" devices.
C25_OpenPortsAreEnumeratedDevices ==
    ( /\ mon.pc = "sleep"
      /\ trigger # None
      /\ trigger < clock
      /\ state.last_device_update = trigger
      /\ hist.open_failed = {} )
    => OpenPorts = EnumeratedDevices

-----------------------------------------------------------------------------
(* The chord label and the latched notes while notes are held               *)
(* (specification SpecSizes).                                               *)

\* What the iteration stores as the chord label of the held notes.
HeldLabel(notes) ==
    IF Cardinality(notes) \in 3..6 THEN detect_chord(notes).chord_str
    ELSE EmptyLabel

\* C23: between iterations, while notes are held, the chord label is the
\* classifier's result for the held notes when they are three to six, and
\* empty otherwise, and no note is latched: held notes and latched notes are
\* never both there.
C23_HeldNotesOwnLabelAndNoLatch ==
    state.active_notes # {}
    => /\ state.chord_name = HeldLabel(state.active_notes)
       /\ state.bubble_latched_notes = <<>>

\* Three keys are held after a release had latched notes: the label is the
\* classifier's result for the three, and the latch is empty again.
C23_Witness ==
    /\ Cardinality(state.active_notes) = 3
    /\ state.chord_name = detect_chord(state.active_notes).chord_str
    /\ state.chord_name # EmptyLabel
    /\ state.bubble_latched_notes = <<>>
    /\ hist.rel_t = None
    /\ \E n \in NoteUniverse : hist.kind[n] = "off"

====
